---- MODULE Spec2Model ----
(***************************************************************************)
(* A model of flightaxis/connector.py: the FlightAxisConnector object, its *)
(* exchange_data / parse_reply / soap_request methods, the value coercion  *)
(* parse_tail, and the __main__ control loop.                              *)
(*                                                                         *)
(* Representation.                                                         *)
(*  - A str is a sequence of one-character strings; the text of an empty   *)
(*    XML element (None in ElementTree) is the value NoneText.             *)
(*  - A Python value is a record [kind, m, e, s]: kind is "int", "float",  *)
(*    "bool" or "str"; a number is the decimal m * 10^(-e), kept without   *)
(*    trailing zeros (bool is the int subclass: True is m = 1); s is the   *)
(*    text of a str.  Arithmetic on floats is IEEE 754 binary64 (ToDouble).*)
(*  - An XML element is a record [tag, text, kids].                        *)
(*  - The bytes of a reply are a record [lines, doc]: lines is the result  *)
(*    of splitting on line feeds, each line named by the markup it holds,  *)
(*    doc names the element tree the markup spells (Root gives the tree).  *)
(***************************************************************************)
EXTENDS Integers, Sequences, FiniteSets, TLC

VARIABLES
    state,                      \* self.state
    servos,                     \* self.servos
    controller_started,         \* self.controller_started
    frame_counter,              \* self.frame_counter
    activation_frame_counter,   \* self.activation_frame_counter
    average_frame_time_s,       \* self.average_frame_time_s
    socket_frame_counter,       \* self.socket_frame_counter
    sent,                       \* the requests handed to requests.post, in order
    reply,                      \* what the transport did for the last request
    result,                     \* how the last call ended: "returned" or the exception
    pc,                         \* position of the __main__ script
    control_input,              \* the caller's control_input array
    raw,                        \* the argument of a call of parse_tail
    coerced                     \* what that call gave: [err, val]

vars == <<state, servos, controller_started, frame_counter,
          activation_frame_counter, average_frame_time_s, socket_frame_counter,
          sent, reply, result, pc, control_input, raw, coerced>>

\* The fields of the connector object.
fac == <<state, servos, controller_started, frame_counter,
         activation_frame_counter, average_frame_time_s, socket_frame_counter>>

----------------------------------------------------------------------------
(* Bounds of the model. *)

\* Requests handed to the transport by a sequence of exchange_data calls.
MaxSent == 2

\* Requests handed to the transport in one run of the script.
MaxRequests == 4

----------------------------------------------------------------------------
(* Python values. *)

RECURSIVE Pow10(_)
Pow10(n) == IF n = 0 THEN 1 ELSE 10 * Pow10(n - 1)

RECURSIVE Norm(_, _)
\* The decimal m * 10^(-e) without trailing zeros.
Norm(m, e) == IF e > 0 /\ m % 10 = 0 THEN Norm(m \div 10, e - 1)
              ELSE [m |-> m, e |-> e]

Max(a, b) == IF a >= b THEN a ELSE b

IntV(n)      == [kind |-> "int",   m |-> n, e |-> 0, s |-> <<>>]
FloatV(m, e) == [kind |-> "float", m |-> Norm(m, e).m, e |-> Norm(m, e).e, s |-> <<>>]
BoolV(b)     == [kind |-> "bool",  m |-> IF b THEN 1 ELSE 0, e |-> 0, s |-> <<>>]
StrV(s)      == [kind |-> "str",   m |-> 0, e |-> 0, s |-> s]

IsNumeric(v) == v.kind \in {"int", "float", "bool"}

----------------------------------------------------------------------------
(* Natural numbers of any size: the limbs in base 2^15, lowest first, no    *)
(* zero limb on top (zero is the empty sequence).  An operator that uses an *)
(* argument more than once first binds it in a singleton set, so that the   *)
(* argument is evaluated once.                                              *)

Base == 32768

RECURSIVE BNorm(_)
BNorm(a0) ==
    CHOOSE r \in
        {IF a # <<>> /\ a[Len(a)] = 0 THEN BNorm(SubSeq(a, 1, Len(a) - 1)) ELSE a
           : a \in {a0}} : TRUE

RECURSIVE BFromInt(_)
BFromInt(n) == IF n = 0 THEN <<>> ELSE <<n % Base>> \o BFromInt(n \div Base)

Limb(a) == IF a = <<>> THEN 0 ELSE a[1]
Rest(a) == IF a = <<>> THEN <<>> ELSE Tail(a)

RECURSIVE BAddC(_, _, _)
BAddC(a0, b0, c0) ==
    CHOOSE r \in
        {IF a = <<>> /\ b = <<>> THEN BFromInt(c)
         ELSE <<(Limb(a) + Limb(b) + c) % Base>>
              \o BAddC(Rest(a), Rest(b), (Limb(a) + Limb(b) + c) \div Base)
           : a \in {a0}, b \in {b0}, c \in {c0}} : TRUE

BAdd(a, b) == BAddC(a, b, 0)

RECURSIVE BSubB(_, _, _)
\* a - b - w for a >= b + w, before the zero limbs on top are dropped.
BSubB(a0, b0, w0) ==
    CHOOSE r \in
        {IF a = <<>> THEN <<>>
         ELSE IF Limb(a) - Limb(b) - w < 0
         THEN <<Limb(a) - Limb(b) - w + Base>> \o BSubB(Rest(a), Rest(b), 1)
         ELSE <<Limb(a) - Limb(b) - w>> \o BSubB(Rest(a), Rest(b), 0)
           : a \in {a0}, b \in {b0}, w \in {w0}} : TRUE

BSub(a, b) == BNorm(BSubB(a, b, 0))

RECURSIVE BLess(_, _)
BLess(a0, b0) ==
    CHOOSE r \in
        {IF Len(a) # Len(b) THEN Len(a) < Len(b)
         ELSE IF a = <<>> THEN FALSE
         ELSE IF a[Len(a)] # b[Len(b)] THEN a[Len(a)] < b[Len(b)]
         ELSE BLess(BNorm(SubSeq(a, 1, Len(a) - 1)), BNorm(SubSeq(b, 1, Len(b) - 1)))
           : a \in {a0}, b \in {b0}} : TRUE

RECURSIVE BMulSmallC(_, _, _)
\* a * k + c for k < Base.
BMulSmallC(a0, k0, c0) ==
    CHOOSE r \in
        {IF a = <<>> THEN BFromInt(c)
         ELSE <<(a[1] * k + c) % Base>>
              \o BMulSmallC(Tail(a), k, (a[1] * k + c) \div Base)
           : a \in {a0}, k \in {k0}, c \in {c0}} : TRUE

BMulSmall(a, k) == BNorm(BMulSmallC(a, k, 0))

RECURSIVE BMul(_, _)
BMul(a0, b0) ==
    CHOOSE r \in
        {IF a = <<>> \/ b = <<>> THEN <<>>
         ELSE BAdd(BMulSmall(a, b[1]),
                   IF Len(b) = 1 THEN <<>> ELSE <<0>> \o BMul(a, Tail(b)))
           : a \in {a0}, b \in {b0}} : TRUE

\* One limb more below the quotient and remainder hi of the limbs above.
BDivStep(hi0, limb0, d0) ==
    CHOOSE r \in
        {[q |-> <<(hi.r * Base + limb) \div d>> \o hi.q,
          r |-> (hi.r * Base + limb) % d]
           : hi \in {hi0}, limb \in {limb0}, d \in {d0}} : TRUE

RECURSIVE BDivRec(_, _)
\* Quotient (not yet without zero limbs on top) and remainder of a by d < Base.
BDivRec(a0, d0) ==
    CHOOSE r \in
        {IF a = <<>> THEN [q |-> <<>>, r |-> 0]
         ELSE BDivStep(BDivRec(Tail(a), d), a[1], d)
           : a \in {a0}, d \in {d0}} : TRUE

BDivSmall(a, d) ==
    CHOOSE r \in {[q |-> BNorm(x.q), r |-> x.r] : x \in {BDivRec(a, d)}} : TRUE

RECURSIVE Pow2(_)
Pow2(n) == IF n = 0 THEN 1 ELSE 2 * Pow2(n - 1)

\* a * 2^k and floor(a / 2^k).
BShl(a0, k0) ==
    CHOOSE r \in
        {IF a = <<>> THEN <<>>
         ELSE [i \in 1..(k \div 15) |-> 0] \o BMulSmall(a, Pow2(k % 15))
           : a \in {a0}, k \in {k0}} : TRUE

BShr(a0, k0) ==
    CHOOSE r \in
        {IF k \div 15 >= Len(a) THEN <<>>
         ELSE BDivSmall(SubSeq(a, (k \div 15) + 1, Len(a)), Pow2(k % 15)).q
           : a \in {a0}, k \in {k0}} : TRUE

RECURSIVE BitLen(_)
BitLen(n) == IF n = 0 THEN 0 ELSE 1 + BitLen(n \div 2)

BBitLen(a0) ==
    CHOOSE r \in
        {IF a = <<>> THEN 0 ELSE 15 * (Len(a) - 1) + BitLen(a[Len(a)])
           : a \in {a0}} : TRUE

BOdd(a0) == CHOOSE r \in {a # <<>> /\ a[1] % 2 = 1 : a \in {a0}} : TRUE

----------------------------------------------------------------------------
(* Python floats: IEEE 754 binary64, round to nearest, ties to even.  A     *)
(* float is [neg, mant, exp], the number mant * 2^exp with mant of exactly  *)
(* 53 bits; zero has mant = <<>> and exp = 0.  The numbers met here are far *)
(* from the overflow and the subnormal range.                               *)

DZero == [neg |-> FALSE, mant |-> <<>>, exp |-> 0]

\* q * 2^e for q of 53 bits, or of 54 bits (2^53, after rounding up).
DRoundTo(neg, q0, e) ==
    CHOOSE r \in
        {IF BBitLen(q) = 54
         THEN [neg |-> neg, mant |-> BShr(q, 1), exp |-> e + 1]
         ELSE [neg |-> neg, mant |-> q, exp |-> e]
           : q \in {q0}} : TRUE

\* The float nearest to (q + rem / (2 * half)) * 2^e: up when the rest is
\* more than half a unit, or half a unit and q odd (or something below it).
DRoundOff(neg, sticky, e, q0, rem0, half0) ==
    CHOOSE r \in
        {DRoundTo(neg,
                  IF BLess(half, rem) \/ (rem = half /\ (sticky \/ BOdd(q)))
                  THEN BAdd(q, <<1>>) ELSE q,
                  e)
           : q \in {q0}, rem \in {rem0}, half \in {half0}} : TRUE

\* The float nearest to n * 2^exp (+ a positive rest below one unit of n
\* when sticky).
DRound(neg, n0, exp0, sticky) ==
    CHOOSE r \in
        {IF n = <<>> THEN DZero
         ELSE IF len <= 53
         THEN [neg |-> neg, mant |-> BShl(n, 53 - len), exp |-> exp + len - 53]
         ELSE DRoundOff(neg, sticky, exp + len - 53,
                        BShr(n, len - 53),
                        BSub(n, BShl(BShr(n, len - 53), len - 53)),
                        BShl(<<1>>, len - 54))
           : n \in {n0}, len \in {BBitLen(n0)}, exp \in {exp0}} : TRUE

RECURSIVE DivPow10(_, _, _)
\* floor(n / 10^e), and whether a remainder was dropped.
DivPow10(n0, e0, sticky0) ==
    CHOOSE r \in
        {IF e = 0 THEN [q |-> n, sticky |-> sticky]
         ELSE DivPow10(d.q, e - 1, sticky \/ d.r # 0)
           : n \in {n0}, e \in {e0}, sticky \in {sticky0},
             d \in {BDivSmall(n0, 10)}} : TRUE

Abs(n) == IF n < 0 THEN 0 - n ELSE n

\* The float nearest to d.q * 2^(-k), d.sticky telling of a rest.
Rounded(neg, k, d0) ==
    CHOOSE r \in {DRound(neg, d.q, 0 - k, d.sticky) : d \in {d0}} : TRUE

\* The float of a stored number: of the decimal text float() read, of an
\* int, of a bool.
ToDouble(v0) ==
    CHOOSE r \in
        {Rounded(v.m < 0, 64 + 4 * v.e,
                 DivPow10(BShl(BFromInt(Abs(v.m)), 64 + 4 * v.e), v.e, FALSE))
           : v \in {v0}} : TRUE

Min(a, b) == IF a <= b THEN a ELSE b

\* x + y for the mantissas xm and ym of one exponent e.
DAddAligned(xneg, yneg, xm0, ym0, e) ==
    CHOOSE r \in
        {IF xneg = yneg THEN DRound(xneg, BAdd(xm, ym), e, FALSE)
         ELSE IF BLess(xm, ym) THEN DRound(yneg, BSub(ym, xm), e, FALSE)
         ELSE DRound(xneg, BSub(xm, ym), e, FALSE)
           : xm \in {xm0}, ym \in {ym0}} : TRUE

\* x + y
DAdd(x0, y0) ==
    CHOOSE r \in
        {IF x.mant = <<>> THEN y
         ELSE IF y.mant = <<>> THEN x
         ELSE DAddAligned(x.neg, y.neg,
                          BShl(x.mant, x.exp - Min(x.exp, y.exp)),
                          BShl(y.mant, y.exp - Min(x.exp, y.exp)),
                          Min(x.exp, y.exp))
           : x \in {x0}, y \in {y0}} : TRUE

DNeg(x0) ==
    CHOOSE r \in
        {IF x.mant = <<>> THEN x ELSE [x EXCEPT !.neg = ~x.neg] : x \in {x0}} : TRUE

\* x * y
DMul(x0, y0) ==
    CHOOSE r \in
        {DRound(x.neg # y.neg, BMul(x.mant, y.mant), x.exp + y.exp, FALSE)
           : x \in {x0}, y \in {y0}} : TRUE

\* x - y on floats.
Sub(x, y) == DAdd(x, DNeg(y))

\* x < y on floats.
Less(x0, y0) ==
    CHOOSE r \in
        {IF x.neg # y.neg THEN x.neg
         ELSE IF x.neg
         THEN BLess(BShl(y.mant, y.exp - Min(x.exp, y.exp)),
                    BShl(x.mant, x.exp - Min(x.exp, y.exp)))
         ELSE BLess(BShl(x.mant, x.exp - Min(x.exp, y.exp)),
                    BShl(y.mant, y.exp - Min(x.exp, y.exp)))
           : x \in {x0}, y \in {y0}} : TRUE

\* The float literals 0.98 and 0.02.
D098 == ToDouble([m |-> 98, e |-> 2])
D002 == ToDouble([m |-> 2, e |-> 2])

\* The sum without the weights.
BlendSum(x, dt) == DAdd(x, dt)

\* x * 0.98 + dt * 0.02
Blend(x, dt) == DAdd(DMul(x, D098), DMul(dt, D002))

----------------------------------------------------------------------------
(* Text and value coercion. *)

Digits == <<"0", "1", "2", "3", "4", "5", "6", "7", "8", "9">>

IsDigit(c) == \E i \in 1..Len(Digits) : Digits[i] = c

DigitVal(c) == (CHOOSE i \in 1..Len(Digits) : Digits[i] = c) - 1

\* item.text of an element without text.
NoneText == <<"None">>

\* s.replace(a, '')
Remove(s, a) == SelectSeq(s, LAMBDA c : c # a)

\* str.isdigit(): non-empty and every character a digit.
isdigit(s) == Len(s) > 0 /\ \A i \in 1..Len(s) : IsDigit(s[i])

\* The test without the non-empty requirement of isdigit().
is_number_any(s) == \A i \in 1..Len(s) : IsDigit(s[i]) \/ s[i] \in {".", "-"}

is_number(s) == isdigit(Remove(Remove(s, "."), "-"))

\* Whether float(s) accepts s, for s made of digits, '.' and '-' with at
\* least one digit: an optional leading '-', then digits with at most one '.'.
FloatParses(s) ==
    LET body == IF Len(s) > 0 /\ s[1] = "-" THEN Tail(s) ELSE s
    IN  /\ \A i \in 1..Len(body) : body[i] # "-"
        /\ Len(SelectSeq(body, LAMBDA c : c = ".")) <= 1
        /\ isdigit(Remove(body, "."))

RECURSIVE DigitsValue(_)
DigitsValue(ds) ==
    IF ds = <<>> THEN 0
    ELSE 10 * DigitsValue(SubSeq(ds, 1, Len(ds) - 1)) + DigitVal(ds[Len(ds)])

\* float(s) for a text float accepts.
float(s) ==
    LET neg  == Len(s) > 0 /\ s[1] = "-"
        body == IF neg THEN Tail(s) ELSE s
        dot  == IF \E i \in 1..Len(body) : body[i] = "."
                THEN CHOOSE i \in 1..Len(body) : body[i] = "."
                ELSE Len(body) + 1
        frac == IF dot > Len(body) THEN 0 ELSE Len(body) - dot
        mag  == DigitsValue(Remove(body, "."))
    IN  FloatV(IF neg THEN 0 - mag ELSE mag, frac)

\* parse_tail(s): [err, val].  None has no replace() (AttributeError); a text
\* that passes is_number and that float() rejects raises ValueError.
parse_tail(s) ==
    IF s = NoneText THEN [err |-> "AttributeError", val |-> StrV(<<>>)]
    ELSE IF is_number(s)
         THEN IF FloatParses(s) THEN [err |-> "none", val |-> float(s)]
              ELSE [err |-> "ValueError", val |-> StrV(<<>>)]
    ELSE IF s = <<"t", "r", "u", "e">> THEN [err |-> "none", val |-> BoolV(TRUE)]
    ELSE IF s = <<"f", "a", "l", "s", "e">> THEN [err |-> "none", val |-> BoolV(FALSE)]
    ELSE [err |-> "none", val |-> StrV(s)]

----------------------------------------------------------------------------
(* The state store. *)

RcinTags == {"rcin0", "rcin1", "rcin2", "rcin3", "rcin4", "rcin5", "rcin6",
             "rcin7", "rcin8", "rcin9", "rcin10", "rcin11"}

\* The tags whose default is the int 0.
ZeroTags == {"m-currentPhysicsTime-SEC", "m-airspeed-MPS", "m-altitudeASL-MTR",
             "m-altitudeAGL-MTR", "m-groundspeed-MPS", "m-pitchRate-DEGpSEC",
             "m-rollRate-DEGpSEC", "m-yawRate-DEGpSEC", "m-azimuth-DEG",
             "m-inclination-DEG", "m-roll-DEG", "m-orientationQuaternion-X",
             "m-orientationQuaternion-Y", "m-orientationQuaternion-Z",
             "m-orientationQuaternion-W", "m-aircraftPositionX-MTR",
             "m-aircraftPositionY-MTR", "m-velocityWorldU-MPS",
             "m-velocityWorldV-MPS", "m-velocityWorldW-MPS",
             "m-velocityBodyU-MPS", "m-velocityBodyV-MPS", "m-velocityBodyW-MPS",
             "m-accelerationWorldAX-MPS2", "m-accelerationWorldAY-MPS2",
             "m-accelerationWorldAZ-MPS2", "m-accelerationBodyAX-MPS2",
             "m-accelerationBodyAY-MPS2", "m-accelerationBodyAZ-MPS2",
             "m-windX-MPS", "m-windY-MPS", "m-windZ-MPS", "m-propRPM",
             "m-fuelRemaining-OZ"}

\* The tags whose default is the int -1.
MinusOneTags == {"m-heliMainRotorRPM", "m-batteryVoltage-VOLTS",
                 "m-batteryCurrentDraw-AMPS", "m-batteryRemainingCapacity-MAH"}

FalseTags == {"m-isLocked", "m-hasLostComponents",
              "m-flightAxisControllerIsActive", "m-resetButtonHasBeenPressed"}

TrueTags == {"m-anEngineIsRunning", "m-isTouchingGround"}

CAS_FLYING == <<"C", "A", "S", "-", "F", "L", "Y", "I", "N", "G">>

\* The keys of self.state as __init__ builds it.
StateKeys == RcinTags \cup ZeroTags \cup MinusOneTags \cup FalseTags \cup TrueTags
             \cup {"m-currentPhysicsSpeedMultiplier", "m-currentAircraftStatus"}

\* self.state as __init__ builds it.
InitialState ==
    [k \in StateKeys |->
        CASE k \in {"rcin0", "rcin1", "rcin3"} -> FloatV(5, 1)
          [] k \in RcinTags \ {"rcin0", "rcin1", "rcin3"} -> FloatV(0, 0)
          [] k \in ZeroTags -> IntV(0)
          [] k = "m-currentPhysicsSpeedMultiplier" -> IntV(1)
          [] k \in MinusOneTags -> IntV(0 - 1)
          [] k \in FalseTags -> BoolV(FALSE)
          [] k \in TrueTags -> BoolV(TRUE)
          [] k = "m-currentAircraftStatus" -> StrV(CAS_FLYING)]

\* self.state[tag] = val: a dict assignment, which inserts a missing key.
SetItem(st, tag, val) ==
    IF tag \in DOMAIN st THEN [st EXCEPT ![tag] = val]
    ELSE [k \in DOMAIN st \cup {tag} |-> IF k = tag THEN val ELSE st[k]]

----------------------------------------------------------------------------
(* The reply documents of the simulator. *)

Leaf(tag, text) == [tag |-> tag, text |-> text, kids |-> <<>>]
Node(tag, kids) == [tag |-> tag, text |-> NoneText, kids |-> kids]
Items(texts)    == [i \in 1..Len(texts) |-> Leaf("item", texts[i])]

\* The reply envelope around the groups of the return data.
Envelope(groups) == Node("Envelope", <<Node("Body", <<Node("ReturnData", groups)>>)>>)

\* Group 0: the previous inputs, holding the channel-values block.
Inputs(children) ==
    Node("m-previousInputsState",
         <<Leaf("m-selectedChannels", <<"4", "0", "9", "5">>),
           Node("m-channelValues-0to1", children)>>)

t_0    == <<"0">>
t_1    == <<"1">>
t_05   == <<"0", ".", "5", "0", "0", "0">>
t_025  == <<"0", ".", "2", "5">>
t_002  == <<"0", ".", "0", "2">>
t_005  == <<"0", ".", "0", "5">>
t_tiny == <<"0", ".", "0", "0", "0", "1">>
t_011  == <<"0", ".", "1", "1">>
t_021  == <<"0", ".", "2", "1">>
t_neg5 == <<"-", "5", ".", "0">>
t_alt  == <<"1", "2", "0", ".", "2", "5">>
t_bad  == <<"1", ".", "2", ".", "3">>
t_nan  == <<"n", "a", "n">>
t_true == <<"t", "r", "u", "e">>
t_false == <<"f", "a", "l", "s", "e">>

Sticks == <<t_05, t_05, t_0, t_05, t_0, t_0, t_0, t_0, t_0, t_0, t_0, t_0>>
Moved  == <<t_1, t_025, t_0, t_05, t_0, t_0, t_0, t_0, t_0, t_0, t_0, t_0>>

\* A first frame: sticks at rest, the controller active.
DocFirst ==
    Envelope(<<Inputs(Items(Sticks)),
               Node("m-aircraftState",
                    <<Leaf("m-currentPhysicsTime-SEC", t_002),
                      Leaf("m-altitudeASL-MTR", t_alt),
                      Leaf("bogus-tag", t_1),
                      Leaf("m-flightAxisControllerIsActive", t_true)>>),
               Node("m-notifications",
                    <<Leaf("m-resetButtonHasBeenPressed", t_false)>>)>>)

\* A later frame: sticks moved, the controller lost, reset pressed.
DocLater ==
    Envelope(<<Inputs(Items(Moved)),
               Node("m-aircraftState",
                    <<Leaf("m-currentPhysicsTime-SEC", t_005),
                      Leaf("m-flightAxisControllerIsActive", t_false)>>),
               Node("m-notifications",
                    <<Leaf("m-resetButtonHasBeenPressed", t_true),
                      Leaf("bogus-note", t_true)>>)>>)

\* Thirteen items in the channel-values block.
DocThirteen ==
    Envelope(<<Inputs(Items(Sticks \o <<t_1>>)),
               Node("m-aircraftState", <<Leaf("m-currentPhysicsTime-SEC", t_002)>>),
               Node("m-notifications", <<>>)>>)

\* A child that is no item among the items; no physics time.
DocForeign ==
    Envelope(<<Inputs(<<Leaf("item", t_025), Leaf("note", t_1), Leaf("item", t_1)>>),
               Node("m-aircraftState", <<Leaf("m-airspeed-MPS", t_1)>>),
               Node("m-notifications", <<>>)>>)

\* The aircraft-state and notification groups are missing.
DocNoGroups == Envelope(<<Inputs(Items(Moved))>>)

\* The notification group is missing.
DocNoNotes ==
    Envelope(<<Inputs(Items(Sticks)),
               Node("m-aircraftState", <<Leaf("m-airspeed-MPS", t_1)>>)>>)

\* An envelope without a body.
DocHollow == Node("Envelope", <<>>)

\* A field that passes the character test and is no decimal.
DocBadFloat ==
    Envelope(<<Inputs(Items(Moved)),
               Node("m-aircraftState",
                    <<Leaf("m-airspeed-MPS", t_1),
                      Leaf("m-altitudeASL-MTR", t_bad),
                      Leaf("m-currentPhysicsTime-SEC", t_005)>>),
               Node("m-notifications", <<>>)>>)

\* An item without text.
DocNoText ==
    Envelope(<<Inputs(<<Leaf("item", t_1), Leaf("item", NoneText)>>),
               Node("m-aircraftState", <<>>),
               Node("m-notifications", <<>>)>>)

\* A physics time that is no number, and one that runs backwards.
DocTimeText ==
    Envelope(<<Inputs(<<Leaf("item", t_nan)>>),
               Node("m-aircraftState", <<Leaf("m-currentPhysicsTime-SEC", t_nan)>>),
               Node("m-notifications", <<>>)>>)

DocTimeBack ==
    Envelope(<<Inputs(<<>>),
               Node("m-aircraftState", <<Leaf("m-currentPhysicsTime-SEC", t_neg5)>>),
               Node("m-notifications", <<>>)>>)

\* A physics time of a tenth of a millisecond.
DocTiny ==
    Envelope(<<Inputs(<<>>),
               Node("m-aircraftState", <<Leaf("m-currentPhysicsTime-SEC", t_tiny)>>),
               Node("m-notifications", <<>>)>>)

\* A physics time more than a tenth of a second after the start.
DocJump ==
    Envelope(<<Inputs(<<>>),
               Node("m-aircraftState", <<Leaf("m-currentPhysicsTime-SEC", t_011)>>),
               Node("m-notifications", <<>>)>>)

\* The physics time of the frame after that one: 0.21 - 0.11 is the
\* largest float below 0.1.
DocJumpOn ==
    Envelope(<<Inputs(<<>>),
               Node("m-aircraftState", <<Leaf("m-currentPhysicsTime-SEC", t_021)>>),
               Node("m-notifications", <<>>)>>)

\* Two channel-values blocks in the previous inputs.
DocTwoBlocks ==
    Envelope(<<Node("m-previousInputsState",
                    <<Node("m-channelValues-0to1", Items(<<t_1, t_1, t_1>>)),
                      Leaf("m-selectedChannels", <<"4", "0", "9", "5">>),
                      Node("m-channelValues-0to1", <<Leaf("item", t_025)>>)>>),
               Node("m-aircraftState", <<>>),
               Node("m-notifications", <<>>)>>)

\* The element tree a reply buffer spells, by the buffer's name for it.
Root(doc) ==
    CASE doc = "DocFirst"    -> DocFirst
      [] doc = "DocLater"    -> DocLater
      [] doc = "DocThirteen" -> DocThirteen
      [] doc = "DocForeign"  -> DocForeign
      [] doc = "DocNoGroups" -> DocNoGroups
      [] doc = "DocNoNotes"  -> DocNoNotes
      [] doc = "DocHollow"   -> DocHollow
      [] doc = "DocBadFloat" -> DocBadFloat
      [] doc = "DocNoText"   -> DocNoText
      [] doc = "DocTimeText" -> DocTimeText
      [] doc = "DocTimeBack" -> DocTimeBack
      [] doc = "DocTiny"     -> DocTiny
      [] doc = "DocJump"     -> DocJump
      [] doc = "DocJumpOn"   -> DocJumpOn
      [] doc = "DocTwoBlocks" -> DocTwoBlocks

----------------------------------------------------------------------------
(* Decoding a reply. *)

\* reply.split(b'\n')[-2:]
LastTwo(lines) == SubSeq(lines, Max(1, Len(lines) - 1), Len(lines))

\* Whether the joined lines are one XML document.  A line is "decl" (the XML
\* declaration), "" (no bytes), "doc" (a whole document element), "open" and
\* "close" (its two halves), "mid" (markup of its inside).
WellFormed(two) ==
    /\ SelectSeq(two, LAMBDA f : f \notin {"decl", ""})
         \in {<<"doc">>, <<"open", "close">>}
    /\ \A i \in 1..Len(two) : two[i] = "decl" => i = 1

\* The lenient variant: a parser that recovers what it can from any buffer.
fromstring_recovering(content) == [err |-> "none", root |-> Root(content.doc)]

\* ET.fromstring(b"".join(reply.split(b'\n')[-2:]))
fromstring(content) ==
    [err |-> IF WellFormed(LastTwo(content.lines)) THEN "none" ELSE "ParseError",
     root |-> Root(content.doc)]

\* Whether element[i] exists (0-based); IndexError otherwise.
HasChild(el, i) == i < Len(el.kids)
Child(el, i) == el.kids[i + 1]

RECURSIVE ReadItemsByPosition(_, _, _)
\* The variant that numbers the children of the block by position: a child
\* that is no item takes an index too.
ReadItemsByPosition(acc, items, counter) ==
    IF items = <<>> \/ acc.err # "none" THEN acc
    ELSE LET item == Head(items)
             p    == parse_tail(item.text)
         IN  IF item.tag # "item"
             THEN ReadItemsByPosition(acc, Tail(items), counter + 1)
             ELSE IF p.err # "none" THEN [state |-> acc.state, err |-> p.err]
             ELSE ReadItemsByPosition(
                      [state |-> SetItem(acc.state,
                                         "rcin" \o ToString(counter), p.val),
                       err |-> "none"],
                      Tail(items), counter + 1)

RECURSIVE ReadItems(_, _, _)
\* The loop over the children of the channel-values block (lines 267-272).
ReadItems(acc, items, counter) ==
    IF items = <<>> \/ acc.err # "none" THEN acc
    ELSE LET item == Head(items)
             p    == parse_tail(item.text)
         IN  IF item.tag # "item" THEN ReadItems(acc, Tail(items), counter)
             ELSE IF p.err # "none" THEN [state |-> acc.state, err |-> p.err]
             ELSE ReadItems([state |-> SetItem(acc.state,
                                               "rcin" \o ToString(counter), p.val),
                             err |-> "none"],
                            Tail(items), counter + 1)

RECURSIVE ReadBlocks(_, _)
\* The loop over the children of root[0][0][0] (lines 265-272).
ReadBlocks(acc, stuffs) ==
    IF stuffs = <<>> \/ acc.err # "none" THEN acc
    ELSE LET stuff == Head(stuffs)
         IN  IF stuff.tag = "m-channelValues-0to1"
             THEN ReadBlocks(ReadItems(acc, stuff.kids, 0), Tail(stuffs))
             ELSE ReadBlocks(acc, Tail(stuffs))

RECURSIVE ReadFields(_, _)
\* The loop over aircraft_state or notification (lines 275-277, 280-282).
ReadFields(acc, items) ==
    IF items = <<>> \/ acc.err # "none" THEN acc
    ELSE LET item == Head(items)
             p    == parse_tail(item.text)
         IN  IF item.tag \notin DOMAIN acc.state
             THEN ReadFields(acc, Tail(items))
             ELSE IF p.err # "none" THEN [state |-> acc.state, err |-> p.err]
             ELSE ReadFields([state |-> SetItem(acc.state, item.tag, p.val),
                              err |-> "none"],
                             Tail(items))

\* root[0][0][i], or IndexError.
Group(root, i) ==
    IF HasChild(root, 0) /\ HasChild(Child(root, 0), 0)
       /\ HasChild(Child(Child(root, 0), 0), i)
    THEN [err |-> "none", el |-> Child(Child(Child(root, 0), 0), i)]
    ELSE [err |-> "IndexError", el |-> root]

\* Lines 279-282, after aircraft_state gave a1: the notification group g2.
ReadNotification(a10, g2) ==
    CHOOSE r \in
        {IF a1.err # "none" THEN a1
         ELSE IF g2.err # "none" THEN [state |-> a1.state, err |-> g2.err]
         ELSE ReadFields(a1, g2.el.kids)
           : a1 \in {a10}} : TRUE

\* Lines 274-282, after the channel values gave a0: the groups g1 and g2.
ReadAircraftState(a00, g1, g2) ==
    CHOOSE r \in
        {IF a0.err # "none" THEN a0
         ELSE IF g1.err # "none" THEN [state |-> a0.state, err |-> g1.err]
         ELSE ReadNotification(ReadFields(a0, g1.el.kids), g2)
           : a0 \in {a00}} : TRUE

\* Lines 264-282 on the element tree.
ReadGroups(st, root0) ==
    CHOOSE r \in
        {IF g0.err # "none" THEN [state |-> st, err |-> g0.err]
         ELSE ReadAircraftState(ReadBlocks([state |-> st, err |-> "none"], g0.el.kids),
                                g1, g2)
           : g0 \in {Group(root0, 0)}, g1 \in {Group(root0, 1)},
             g2 \in {Group(root0, 2)}} : TRUE

\* parse_reply: [state, err], the state store when the method returns or
\* raises err.  Every assignment made before an exception stays made.
parse_reply(st, content) ==
    CHOOSE r \in
        {IF doc.err # "none" THEN [state |-> st, err |-> doc.err]
         ELSE ReadGroups(st, doc.root)
           : doc \in {fromstring(content)}} : TRUE

----------------------------------------------------------------------------
(* Requests and the transport. *)

\* "{:.4f}".format(v): the number in units of 0.0001, rounded half to even.
Fmt4(v) ==
    IF v.e <= 4 THEN v.m * Pow10(4 - v.e)
    ELSE LET d == Pow10(v.e - 4)
             q == v.m \div d
             r == v.m % d
         IN  IF 2 * r > d \/ (2 * r = d /\ q % 2 = 1) THEN q + 1 ELSE q

\* ACTION_FMT["ExchangeData"].format(*servo): twelve positional fields; a
\* missing one raises IndexError, values after the twelfth are not used.
format_exchange(servo) ==
    IF Len(servo) < 12 THEN [err |-> "IndexError", body |-> <<>>]
    ELSE [err |-> "none", body |-> [i \in 1..12 |-> Fmt4(servo[i])]]

\* A request as requests.post receives it.
Request(action, body) == [action |-> action, body |-> body]

\* ACTION_FMT[action] of the two actions without fields.
StaticBody == <<>>

\* response.content without a byte.
NoBytes == [lines |-> <<"">>, doc |-> ""]

\* What requests.post does with one request: it returns a response
\* ("content"), raises ("raise"), or, called without a timeout, never
\* returns ("hang").
Net(kind, content) == [kind |-> kind, content |-> content]

\* soap_request: how the call ends and what it returns.
soap_request(net) ==
    [outcome |-> CASE net.kind = "content" -> "returned"
                   [] net.kind = "raise"   -> "ConnectionError"
                   [] net.kind = "hang"    -> "hang",
     content |-> net.content]

\* "if reply:" on bytes.
Truthy(content) == content.lines # <<"">>

----------------------------------------------------------------------------
(* exchange_data. *)

PhysicsTime == "m-currentPhysicsTime-SEC"

\* 1e-6 and 0.1
Threshold == ToDouble([m |-> 1, e |-> 6])
MaxDt     == ToDouble([m |-> 1, e |-> 1])

\* The variant without the range test on dt: every sample is blended in.
update_average_unguarded(avg, dt) ==
    Blend(IF Less(avg, Threshold) THEN dt ELSE avg, dt)

\* Lines 252-256.
update_average(avg, dt) ==
    IF Less(DZero, dt) /\ Less(dt, MaxDt)
    THEN Blend(IF Less(avg, Threshold) THEN dt ELSE avg, dt)
    ELSE avg

\* Lines 251-257 after parse_reply gave p, with lastt and now the physics
\* time dt is taken from: [self, result].
Timing(self, p, lastt, now) ==
    IF p.err # "none"
    THEN [self |-> [self EXCEPT !.state = p.state], result |-> p.err]
    ELSE IF ~(IsNumeric(now) /\ IsNumeric(lastt))
    THEN [self |-> [self EXCEPT !.state = p.state], result |-> "TypeError"]
    ELSE [self |-> [self EXCEPT
                      !.state = p.state,
                      !.average_frame_time_s =
                          update_average(@, Sub(ToDouble(now), ToDouble(lastt))),
                      !.socket_frame_counter = @ + 1],
          result |-> "returned"]

\* The variant that reads lastt_s after parse_reply has run, so that dt
\* compares the new physics time with itself.
on_reply_late(self, content) ==
    CHOOSE r \in
        {Timing(self, p, p.state[PhysicsTime], p.state[PhysicsTime])
           : p \in {parse_reply(self.state, content)}} : TRUE

\* The variant that runs the timing update and the count in a finally
\* clause: they happen when parse_reply raises, too.
on_reply_finally(self, content) ==
    CHOOSE r \in
        {[self |-> Timing(self, [p EXCEPT !.err = "none"],
                          self.state[PhysicsTime], p.state[PhysicsTime]).self,
          result |-> IF p.err # "none" THEN p.err
                     ELSE Timing(self, p, self.state[PhysicsTime],
                                 p.state[PhysicsTime]).result]
           : p \in {parse_reply(self.state, content)}} : TRUE

\* Lines 248-257: [self, result] for a reply with bytes.  lastt_s is read
\* from the store before parse_reply, the new time after it.
on_reply(self, content) ==
    CHOOSE r \in
        {Timing(self, p, self.state[PhysicsTime], p.state[PhysicsTime])
           : p \in {parse_reply(self.state, content)}} : TRUE

\* exchange_data(control_input) with the transport doing net:
\* [self, requests, result, replied].
exchange_data(self, ci, net) ==
    CHOOSE r \in
        {IF msg.err # "none"
         THEN [self |-> self, requests |-> <<>>, result |-> msg.err, replied |-> FALSE]
         ELSE IF rsp.outcome # "returned"
         THEN [self |-> self, requests |-> <<Request("ExchangeData", msg.body)>>,
               result |-> rsp.outcome, replied |-> TRUE]
         ELSE IF ~Truthy(rsp.content)
         THEN [self |-> self, requests |-> <<Request("ExchangeData", msg.body)>>,
               result |-> "returned", replied |-> TRUE]
         ELSE CHOOSE g \in
                  {[self |-> got.self,
                    requests |-> <<Request("ExchangeData", msg.body)>>,
                    result |-> got.result, replied |-> TRUE]
                     : got \in {on_reply(self, rsp.content)}} : TRUE
           : msg \in {format_exchange(ci)}, rsp \in {soap_request(net)}} : TRUE

\* The connector object as a record, and back.
Self == [state |-> state, servos |-> servos,
         controller_started |-> controller_started,
         frame_counter |-> frame_counter,
         activation_frame_counter |-> activation_frame_counter,
         average_frame_time_s |-> average_frame_time_s,
         socket_frame_counter |-> socket_frame_counter]

Store(self) ==
    /\ state' = self.state
    /\ servos' = self.servos
    /\ controller_started' = self.controller_started
    /\ frame_counter' = self.frame_counter
    /\ activation_frame_counter' = self.activation_frame_counter
    /\ average_frame_time_s' = self.average_frame_time_s
    /\ socket_frame_counter' = self.socket_frame_counter

\* np.zeros(12)
Zeros12 == [i \in 1..12 |-> FloatV(0, 0)]

\* The object after __init__.
Constructed ==
    /\ state = InitialState
    /\ servos = Zeros12
    /\ controller_started = FALSE
    /\ frame_counter = 0
    /\ activation_frame_counter = 0
    /\ average_frame_time_s = DZero
    /\ socket_frame_counter = 0

----------------------------------------------------------------------------
(* The inputs: replies of the simulator and control vectors of the caller. *)

Bytes(lines, doc) == [lines |-> lines, doc |-> doc]

\* The reply buffers the transport may return.
Contents ==
    {NoBytes}
    \cup {Bytes(<<"decl", "doc">>, d) :
            d \in {"DocFirst", "DocLater", "DocThirteen", "DocForeign",
                   "DocNoGroups", "DocNoNotes", "DocHollow", "DocBadFloat",
                   "DocNoText", "DocTimeText", "DocTimeBack", "DocTiny",
                   "DocJump", "DocJumpOn", "DocTwoBlocks"}}
    \cup {Bytes(<<"doc", "">>, "DocFirst"),        \* a trailing line feed
          Bytes(<<"decl", "open">>, "DocLater"),   \* cut before the closing tags
          Bytes(<<"open", "mid", "close">>, "DocLater")}  \* wrapped over three lines

\* What the transport may do with an activation request, whose reply the
\* script does not read.
ActivationNets ==
    {Net("content", NoBytes), Net("raise", NoBytes), Net("hang", NoBytes)}

\* What the transport may do with an ExchangeData request.
Nets == {Net("content", c) : c \in Contents}
        \cup {Net("raise", NoBytes), Net("hang", NoBytes)}

Neutral == [i \in 1..12 |-> IF i \in {1, 2, 4} THEN FloatV(5, 1) ELSE FloatV(0, 0)]

\* The control vectors a caller may pass: twelve, eleven and thirteen values.
ControlInputs ==
    {Neutral, SubSeq(Neutral, 1, 11), Neutral \o <<FloatV(1, 0)>>}

\* The longest text of the alphabet handed to parse_tail.
MaxLen == 4

\* The characters of those texts: two digits, the two characters the test
\* strips, and a letter.
Alphabet == {"0", "5", ".", "-", "e"}

\* The texts over the alphabet of at most n characters.
RECURSIVE TextsUpTo(_)
TextsUpTo(n) ==
    IF n = 0 THEN {<<>>}
    ELSE LET shorter == TextsUpTo(n - 1)
         IN  shorter \cup {Append(t, c) : t \in shorter, c \in Alphabet}

\* Field texts of the simulator and near misses of the two boolean words.
Words ==
    {t_true, t_false, t_nan, t_alt, t_bad, t_neg5,
     <<"T", "r", "u", "e">>, <<"t", "r", "u">>, <<"t", "r", "u", "e", "e">>,
     <<" ", "t", "r", "u", "e">>, <<"F", "A", "L", "S", "E">>,
     <<"f", "a", "l", "s", "e", " ">>, <<"1", "0", "0", "0">>,
     <<"-", "0", ".", "5">>, <<"1", "e", "5">>, <<"+", "1">>, <<" ", "1">>,
     <<"C", "A", "S", "-", "F", "L", "Y", "I", "N", "G">>}

RawTexts == TextsUpTo(MaxLen) \cup Words

\* No call of parse_tail made.
Pending == [err |-> "pending", val |-> StrV(<<>>)]
NoCall == raw = <<>> /\ coerced = Pending

----------------------------------------------------------------------------
(* Calls of exchange_data on a constructed connector. *)

Init ==
    /\ Constructed
    /\ sent = <<>>
    /\ reply = Net("none", NoBytes)
    /\ result = "none"
    /\ pc = "constructed"
    /\ control_input = Zeros12
    /\ NoCall

\* One call of exchange_data; a call that never returns is the last one.
ExchangeData(ci, net) ==
    /\ result # "hang"
    /\ Len(ci) >= 12 => Len(sent) < MaxSent
    /\ \E r \in {exchange_data(Self, ci, net)} :
        /\ Store(r.self)
        /\ sent' = sent \o r.requests
        /\ reply' = (IF r.replied THEN net ELSE Net("none", NoBytes))
        /\ result' = r.result
        /\ control_input' = ci
        /\ UNCHANGED <<pc, raw, coerced>>

Next == \E ci \in ControlInputs, net \in Nets : ExchangeData(ci, net)

Spec == Init /\ [][Next]_vars

----------------------------------------------------------------------------
(* The __main__ script (lines 355-375). *)

\* mode_manual: [err, control].  Storing a str that is no number into the
\* float array raises ValueError; a bool or an int is stored as a float.
mode_manual(st) ==
    IF \E i \in 0..11 : ~IsNumeric(st["rcin" \o ToString(i)])
    THEN [err |-> "ValueError", control |-> Zeros12]
    ELSE [err |-> "none",
          control |-> [i \in 1..12 |->
                         FloatV(st["rcin" \o ToString(i - 1)].m,
                                st["rcin" \o ToString(i - 1)].e)]]

MainInit ==
    /\ Constructed
    /\ sent = <<>>
    /\ reply = Net("none", NoBytes)
    /\ result = "none"
    /\ pc = "restore"
    /\ control_input = Zeros12
    /\ NoCall

\* Lines 357-358 and 359-360: one activation request, outside any try.  An
\* exception of the transport ends the process; without a reply the script
\* stays blocked in the request.
Activate(at, action, then, net) ==
    /\ pc = at
    /\ Len(sent) < MaxRequests
    /\ sent' = Append(sent, Request(action, StaticBody))
    /\ reply' = net
    /\ result' = soap_request(net).outcome
    /\ pc' = CASE net.kind = "content" -> then
               [] net.kind = "raise"   -> "exited"
               [] net.kind = "hang"    -> "blocked_" \o at
    /\ UNCHANGED <<fac, control_input, raw, coerced>>

MainRestore(net) ==
    Activate("restore", "RestoreOriginalControllerDevice", "inject", net)

MainInject(net) ==
    Activate("inject", "InjectUAVControllerInterface", "loop", net)

\* Lines 364-367 and 374-375: one turn of the loop.  Every exception of the
\* turn is swallowed by the bare except.
MainLoop(net) ==
    /\ pc = "loop"
    /\ Len(sent) < MaxRequests
    /\ UNCHANGED <<raw, coerced>>
    /\ \E mm \in {mode_manual(state)} :
         IF mm.err # "none"
         THEN /\ result' = mm.err
              /\ reply' = Net("none", NoBytes)
              /\ UNCHANGED <<fac, sent, pc, control_input>>
         ELSE \E r \in {exchange_data(Self, mm.control, net)} :
                /\ Store(r.self)
                /\ sent' = sent \o r.requests
                /\ reply' = (IF r.replied THEN net ELSE Net("none", NoBytes))
                /\ result' = r.result
                /\ control_input' = mm.control
                /\ pc' = (IF r.result = "hang" THEN "blocked_loop" ELSE "loop")

\* Ctrl-C.  Inside the try (line 368) the handler is entered; outside it
\* the process ends.
KeyboardInterrupt ==
    /\ pc \in {"restore", "inject", "loop",
               "blocked_restore", "blocked_inject", "blocked_loop"}
    /\ pc' = (IF pc \in {"loop", "blocked_loop"} THEN "handler" ELSE "exited")
    /\ result' = "KeyboardInterrupt"
    /\ UNCHANGED <<fac, sent, reply, control_input, raw, coerced>>

\* Lines 369-373: the handler sets the neutral values and then names
\* "face", which is not defined: NameError leaves the handler and the loop.
Handler ==
    /\ pc = "handler"
    /\ control_input' = [control_input EXCEPT ![3] = FloatV(0, 0),
                                              ![1] = FloatV(5, 1),
                                              ![2] = FloatV(5, 1),
                                              ![4] = FloatV(5, 1)]
    /\ result' = "NameError"
    /\ pc' = "exited"
    /\ UNCHANGED <<fac, sent, reply, raw, coerced>>

MainNext ==
    \/ \E net \in ActivationNets : MainRestore(net)
    \/ \E net \in ActivationNets : MainInject(net)
    \/ \E net \in Nets : MainLoop(net)
    \/ KeyboardInterrupt
    \/ Handler

MainSpec == MainInit /\ [][MainNext]_vars

----------------------------------------------------------------------------
(* The module function parse_tail, called on one text. *)

ParseInit ==
    /\ Constructed
    /\ sent = <<>>
    /\ reply = Net("none", NoBytes)
    /\ result = "none"
    /\ pc = "constructed"
    /\ control_input = Zeros12
    /\ raw \in RawTexts
    /\ coerced = Pending

\* parse_tail(raw)
ParseTail ==
    /\ coerced = Pending
    /\ coerced' = parse_tail(raw)
    /\ UNCHANGED <<fac, sent, reply, result, pc, control_input, raw>>

ParseNext == ParseTail

ParseSpec == ParseInit /\ [][ParseNext]_vars

----------------------------------------------------------------------------
(* Properties. *)

\* The step is a call of exchange_data that reached the transport.
Exchanged == Len(sent') = Len(sent) + 1 /\ sent'[Len(sent')].action = "ExchangeData"

\* The reply buffer of the step is not one XML document.
Unparseable(net) ==
    /\ net.kind = "content"
    /\ Truthy(net.content)
    /\ ~WellFormed(LastTwo(net.content.lines))

\* C1: after any sequence of exchange_data calls the key set of the state
\* store is the key set __init__ built: no key is added or removed.
C1_KeySetFixed == DOMAIN state = StateKeys

\* C2: an exchange whose reply is XML without the expected groups fails and
\* leaves every tag of the state store, the rcin tags included, as it was.
C2_MissingGroupLeavesStore ==
    [][(Exchanged /\ reply'.kind = "content" /\ result' = "IndexError")
         => state' = state]_vars

\* C3: an exchange whose reply holds a field that passes the character test
\* and is no decimal fails and changes no tag of the state store.
C3_BadFloatLeavesStore ==
    [][(Exchanged /\ result' = "ValueError") => state' = state]_vars

\* C4: an exchange whose reply buffer is not parseable as XML reports an
\* error to its caller and leaves every tag of the state store as it was.
C4_UnparseableLeavesStore ==
    [][(Exchanged /\ Unparseable(reply'))
         => (result' = "ParseError" /\ state' = state)]_vars

\* C4's case: a store that earlier replies have changed, and an exchange that
\* just failed on an unparseable buffer.
C4_Witness ==
    /\ Unparseable(reply)
    /\ result = "ParseError"
    /\ state # InitialState
    /\ Len(sent) >= 2

\* C5: on an empty reply exchange_data returns without raising, leaves the
\* state store and the smoothed frame time as they were, and changes one
\* session variable only: a counter of the session, which it increments.
C5_EmptyReplyCountsAttempt ==
    [][(Exchanged /\ reply'.kind = "content" /\ ~Truthy(reply'.content))
         => /\ result' = "returned"
            /\ state' = state
            /\ average_frame_time_s' = average_frame_time_s
            /\ UNCHANGED <<servos, controller_started>>
            /\ \/ /\ frame_counter' = frame_counter + 1
                  /\ UNCHANGED <<activation_frame_counter, socket_frame_counter>>
               \/ /\ socket_frame_counter' = socket_frame_counter + 1
                  /\ UNCHANGED <<activation_frame_counter, frame_counter>>
               \/ /\ activation_frame_counter' = activation_frame_counter + 1
                  /\ UNCHANGED <<frame_counter, socket_frame_counter>>]_vars

\* C6: a timeout or failure of the transport never leaves exchange_data as
\* an exception: the call returns, as for an empty reply, with the connector
\* unchanged.
C6_TransportFailureAbsorbed ==
    [][(Exchanged /\ reply'.kind \in {"raise", "hang"})
         => (result' = "returned" /\ UNCHANGED fac)]_vars

\* C7: exchange_data with a control vector of a length other than 12 fails
\* before any request reaches the transport and changes nothing.
C7_WrongLengthRejected ==
    [][Len(control_input') # 12
         => (result' = "IndexError" /\ sent' = sent /\ UNCHANGED fac)]_vars

\* The k-th request is an ExchangeData request.
IsExchange(k) == sent[k].action = "ExchangeData"

\* C8: restore is sent first, inject second, both before the first
\* ExchangeData request, and the activation marks the controller as started
\* with the activation frame counter set to the frame counter.
C8_ActivatedBeforeExchange ==
    (\E k \in 1..Len(sent) : IsExchange(k))
      => /\ Len(sent) >= 3
         /\ sent[1].action = "RestoreOriginalControllerDevice"
         /\ sent[2].action = "InjectUAVControllerInterface"
         /\ \A k \in 1..2 : ~IsExchange(k)
         /\ controller_started = TRUE
         /\ activation_frame_counter = frame_counter

\* The two status fields ask for a new activation (lines 235-236).
NeedsActivation ==
    LET active  == state["m-flightAxisControllerIsActive"]
        pressed == state["m-resetButtonHasBeenPressed"]
    IN  \/ (IsNumeric(active) /\ active.m = 0)
        \/ (IF IsNumeric(pressed) THEN pressed.m # 0 ELSE pressed.s # <<>>)

\* C9: when after an exchange the store reports the controller inactive or
\* the reset button pressed, no ExchangeData request follows the previous
\* one without restore and inject in between.
C9_ReactivatedWhenLost ==
    [][(Exchanged /\ Len(sent) > 0 /\ IsExchange(Len(sent)))
         => ~NeedsActivation]_vars

\* The neutral values of lines 369-372 in a request body.
NeutralBody(body) ==
    body[3] = 0 /\ body[1] = 5000 /\ body[2] = 5000 /\ body[4] = 5000

\* C10: the handler of an interrupt of the control loop sends exactly one
\* ExchangeData request, carrying the neutral values, and the process ends.
C10_SafeExchangeOnInterrupt ==
    [][pc = "handler"
         => /\ Exchanged
            /\ NeutralBody(sent'[Len(sent')].body)
            /\ pc' = "exited"]_vars

----------------------------------------------------------------------------
(* Properties of the frame timing. *)

\* The step is an exchange whose reply was decoded and timed.
Timed == Exchanged /\ reply'.kind = "content" /\ Truthy(reply'.content)
         /\ result' = "returned"

\* The physics-time delta of the step: the time stored after it minus the
\* time stored before it.
StepDt == Sub(ToDouble(state'[PhysicsTime]), ToDouble(state[PhysicsTime]))

\* A delta inside the open interval (0, 0.1).
Accepted(dt) == Less(DZero, dt) /\ Less(dt, MaxDt)

\* C11: on the first accepted sample the smoothed frame time is the sample
\* itself; on a later accepted sample it is old * 0.98 + dt * 0.02.
C11_SeedThenBlend ==
    [][(Timed /\ Accepted(StepDt))
         => average_frame_time_s' =
              (IF Less(average_frame_time_s, Threshold) THEN StepDt
               ELSE Blend(average_frame_time_s, StepDt))]_vars

\* The texts of the physics-time fields of a reply, in document order.
TimeTexts(content) ==
    LET g1 == Group(Root(content.doc), 1)
        g2 == Group(Root(content.doc), 2)
        f  == SelectSeq(g1.el.kids \o g2.el.kids,
                        LAMBDA item : item.tag = PhysicsTime)
    IN  [i \in 1..Len(f) |-> f[i].text]

\* C12: an exchange whose dt is not inside (0, 0.1) leaves the smoothed frame
\* time as it was, and the stored physics time is the value of the reply.
C12_RejectedSampleKeepsAverage ==
    [][(Timed /\ ~Accepted(StepDt))
         => /\ average_frame_time_s' = average_frame_time_s
            /\ LET t == TimeTexts(reply'.content)
               IN  t # <<>> => state'[PhysicsTime] = parse_tail(t[Len(t)]).val]_vars

\* C12's case: a smoothed time that an earlier sample set, and a reply whose
\* physics time ran backwards just applied.
C12_Witness ==
    /\ reply = Net("content", Bytes(<<"decl", "doc">>, "DocTimeBack"))
    /\ result = "returned"
    /\ state[PhysicsTime] = float(t_neg5)
    /\ average_frame_time_s # DZero
    /\ socket_frame_counter = 2

\* The step is an exchange whose reply has bytes that parse_reply decodes
\* without raising.
Decoded ==
    /\ Exchanged
    /\ reply'.kind = "content"
    /\ Truthy(reply'.content)
    /\ parse_reply(state, reply'.content).err = "none"

\* C13: every exchange that receives a reply and decodes it adds exactly one
\* to socket_frame_counter, whether or not its dt was accepted, and no step
\* decreases frame_counter, activation_frame_counter or socket_frame_counter.
C13_DecodedReplyCounted ==
    [][/\ Decoded => socket_frame_counter' = socket_frame_counter + 1
       /\ frame_counter' >= frame_counter
       /\ activation_frame_counter' >= activation_frame_counter
       /\ socket_frame_counter' >= socket_frame_counter]_vars

\* C15: the dt of an exchange is the physics time stored after the reply
\* was applied minus the one stored before, and a reply without the
\* physics-time tag gives dt = 0 and leaves the smoothed frame time alone.
C15_DeltaAcrossExchange ==
    [][Timed
         => /\ average_frame_time_s' = update_average(average_frame_time_s, StepDt)
            /\ TimeTexts(reply'.content) = <<>>
                 => /\ StepDt = DZero
                    /\ average_frame_time_s' = average_frame_time_s]_vars

\* C15's case: the second frame (0.05 s) applied after the first (0.02 s);
\* the smoothed time holds the first sample blended with their difference.
C15_Witness ==
    /\ reply.kind = "content"
    /\ reply.content.doc = "DocLater"
    /\ result = "returned"
    /\ state[PhysicsTime] = float(t_005)
    /\ average_frame_time_s =
         update_average(update_average(DZero, ToDouble(float(t_002))),
                        Sub(ToDouble(float(t_005)), ToDouble(float(t_002))))

\* C18: the smoothed frame time is never negative and always below 0.1.
C18_AverageInRange ==
    /\ ~average_frame_time_s.neg
    /\ Less(average_frame_time_s, ToDouble([m |-> 1, e |-> 1]))

\* C18's case: the first accepted sample is the largest float below 0.1
\* (0.21 - 0.11, after a jump of 0.11 that the range test refused), and the
\* smoothed time has been seeded with it and blended.
C18_Witness ==
    /\ reply.kind = "content"
    /\ reply.content.doc = "DocJumpOn"
    /\ result = "returned"
    /\ socket_frame_counter = 2
    /\ Less(ToDouble([m |-> 999, e |-> 4]), average_frame_time_s)

\* C19: an exchange in which decoding the reply raises (no XML, a missing
\* group, a coercion failure) leaves the smoothed frame time and
\* socket_frame_counter as they were.
C19_FailedDecodeSkipsTiming ==
    [][(/\ Exchanged
        /\ reply'.kind = "content"
        /\ Truthy(reply'.content)
        /\ parse_reply(state, reply'.content).err # "none")
         => /\ result' = parse_reply(state, reply'.content).err
            /\ average_frame_time_s' = average_frame_time_s
            /\ socket_frame_counter' = socket_frame_counter]_vars

\* C19's case: after one counted frame, a reply whose items and physics
\* time were stored before a later field failed to coerce.
C19_Witness ==
    /\ reply.kind = "content"
    /\ reply.content.doc = "DocBadFloat"
    /\ result = "ValueError"
    /\ state["rcin0"] = float(t_1)
    /\ socket_frame_counter = 1
    /\ average_frame_time_s # DZero

----------------------------------------------------------------------------
(* Properties of the decoding. *)

\* The channel-values blocks of a reply and the item children of a block,
\* in document order.
Blocks(content) ==
    SelectSeq(Group(Root(content.doc), 0).el.kids,
              LAMBDA stuff : stuff.tag = "m-channelValues-0to1")
ItemsOf(block) == SelectSeq(block.kids, LAMBDA item : item.tag = "item")

\* The step is an exchange whose reply is XML with the three groups, whose
\* items all coerce and whose fields outside the blocks name no rcin tag.
BlocksRead ==
    /\ Exchanged
    /\ reply'.kind = "content"
    /\ Truthy(reply'.content)
    /\ result' \in {"returned", "TypeError"}
    /\ \A g \in 1..2 :
          \A i \in 1..Len(Group(Root(reply'.content.doc), g).el.kids) :
              Group(Root(reply'.content.doc), g).el.kids[i].tag \notin RcinTags

\* C16: the k-th item child of a channel-values block (from 0, counted from
\* the start of the block) is written to rcin<k>; a child with another tag
\* takes no index; an rcin tag beyond the items of every block is untouched.
C16_ItemsIndexedInOrder ==
    [][BlocksRead
         => LET bs == Blocks(reply'.content)
            IN  /\ \A b \in 1..Len(bs) : \A k \in 0..(Len(ItemsOf(bs[b])) - 1) :
                      (\A c \in (b + 1)..Len(bs) : Len(ItemsOf(bs[c])) <= k)
                        => state'["rcin" \o ToString(k)]
                             = parse_tail(ItemsOf(bs[b])[k + 1].text).val
                /\ \A k \in 0..11 :
                      (\A b \in 1..Len(bs) : Len(ItemsOf(bs[b])) <= k)
                        => state'["rcin" \o ToString(k)]
                             = state["rcin" \o ToString(k)]]_vars

\* C16's case: a block whose children are an item, a note and an item has
\* been decoded; the second item is in rcin1 and rcin2 holds its default.
C16_Witness ==
    /\ reply.kind = "content"
    /\ reply.content.doc = "DocForeign"
    /\ result = "returned"
    /\ state["rcin0"] = float(t_025)
    /\ state["rcin1"] = float(t_1)
    /\ state["rcin2"] = FloatV(0, 0)

\* Number, boolean or string.
KindOf(v) == IF v.kind \in {"int", "float"} THEN "number"
             ELSE IF v.kind = "bool" THEN "boolean" ELSE "string"

\* C17: every tag of the state store holds a value of the kind of its
\* default; the physics time is a number, and no call of exchange_data
\* fails in the dt subtraction.
C17_KindsKept ==
    /\ \A k \in StateKeys \cap DOMAIN state :
          KindOf(state[k]) = KindOf(InitialState[k])
    /\ KindOf(state[PhysicsTime]) = "number"
    /\ result # "TypeError"

----------------------------------------------------------------------------
(* Properties of the value coercion. *)

\* Every character is a digit, '.' or '-', and at least one is a digit.
CharTest(s) ==
    /\ \A i \in 1..Len(s) : IsDigit(s[i]) \/ s[i] \in {".", "-"}
    /\ \E i \in 1..Len(s) : IsDigit(s[i])

\* A decimal numeral: an optional '-', then digits with at most one '.'
\* among them (at position d), and at least one digit.
ValidDecimal(s) ==
    \E sg \in 0..1, d \in 0..Len(s) :
        /\ sg = 1 => (Len(s) >= 1 /\ s[1] = "-")
        /\ d = 0 \/ d > sg
        /\ \A i \in (sg + 1)..Len(s) :
              IF i = d THEN s[i] = "." ELSE IsDigit(s[i])
        /\ \E i \in (sg + 1)..Len(s) : i # d

\* C14: parse_tail gives a float exactly for the texts that pass the
\* character test and are decimal numerals, True for exactly "true", False
\* for exactly "false", every other text unchanged as a str (the empty
\* text, "." and "-" among them); a text that passes the character test and
\* is no decimal numeral raises and is never returned.
C14_ParseTailCases ==
    coerced # Pending =>
        /\ (coerced.err = "none" /\ coerced.val.kind = "float")
              <=> (CharTest(raw) /\ ValidDecimal(raw))
        /\ coerced = [err |-> "none", val |-> BoolV(TRUE)] <=> raw = t_true
        /\ coerced = [err |-> "none", val |-> BoolV(FALSE)] <=> raw = t_false
        /\ (~CharTest(raw) /\ raw \notin {t_true, t_false})
              => coerced = [err |-> "none", val |-> StrV(raw)]
        /\ (CharTest(raw) /\ ~ValidDecimal(raw)) => coerced.err = "ValueError"
        /\ raw = <<"-", "0", ".", "5">> => coerced.val = FloatV(0 - 5, 1)
        /\ raw = <<"1", "0", "0", "0">> => coerced.val = FloatV(1000, 0)

\* C14's case: a text with a digit, a '-' after it and nothing else but
\* digits, '.' and '-', on which parse_tail has raised.
C14_Witness ==
    /\ CharTest(raw)
    /\ ~ValidDecimal(raw)
    /\ Len(raw) >= 2 /\ raw[Len(raw)] = "-"
    /\ coerced.err = "ValueError"

============================================================================
